---- MODULE Spec2Model ----
(***************************************************************************)
(* The glowing-circle indicator controller (the colour-parameterised       *)
(* module; the second module of the repository, src/main.ts, is the same   *)
(* code with the colour fixed to BLUE).                                    *)
(*                                                                         *)
(* The module state (circle, styleSheet), the document (body, head and the *)
(* style properties of the live elements), the window's resize and scroll  *)
(* listener lists and the bounding boxes of the caller's target elements   *)
(* are the state.  JavaScript runs every call to completion, so each       *)
(* exported function is one atomic action.  The dispatch of an event is    *)
(* not: the window calls its listeners one after the other, and between    *)
(* two listeners of this module another listener of the same event (the    *)
(* caller's) may run and call the exported functions or change a target's  *)
(* layout.  A dispatch is therefore a sequence of steps: it begins, each   *)
(* pending listener runs, it ends; any call may fall between these steps.  *)
(* The browser fires resize and scroll from its event loop, never from     *)
(* within another dispatch, so at most one dispatch is in progress.        *)
(***************************************************************************)
EXTENDS Integers, Sequences, FiniteSets, TLC

VARIABLES
    circle,           \* module variable `circle`: element id, or NULL
    styleSheet,       \* module variable `styleSheet`: style element id, or NULL
    body,             \* children of document.body created by this module, in order
    head,             \* children of document.head created by this module, in order
    elements,         \* element id -> properties of a live (referenced or attached) div
    styleElements,    \* style element id -> properties of a live <style> element
    resizeListeners,  \* window's 'resize' listeners, in registration order
    scrollListeners,  \* window's 'scroll' listeners, in registration order
    dispatching,      \* the event being dispatched: "resize", "scroll" or "none"
    pending,          \* the listeners of this module the dispatch has yet to call
    rects,            \* target -> what target.getBoundingClientRect() returns now
    created,          \* number of circle elements created so far (the next is created + 1)
    stylesCreated,    \* number of <style> elements created so far
    thrown,           \* the exception the latest call raised to its caller, or "none"
    lastCall,         \* history: the last call or event, with its arguments
    hist              \* history: facts about the calls made on the current handle

prog == <<circle, styleSheet, body, head, elements, styleElements,
          resizeListeners, scrollListeners>>
inflight == <<dispatching, pending>>
vars == <<circle, styleSheet, body, head, elements, styleElements,
          resizeListeners, scrollListeners, dispatching, pending, rects,
          created, stylesCreated, thrown, lastCall, hist>>

----------------------------------------------------------------------------
(* Bounds and inputs *)

\* Circle creations explored (createGlowingMovingCircle runs at most this often).
MaxCreations == 2

\* The caller's target elements.
Targets == {"t1", "t2"}

\* Bounding boxes a target may have: integer and half-integer centres,
\* positive and negative (a target scrolled above the viewport).
Rects ==
    { [top |-> 10, left |-> 7, width |-> 5, height |-> 8],
      [top |-> -3, left |-> 0, width |-> 4, height |-> 1] }

\* The optional colour argument: <<>> when omitted, <<c>> when c is passed.
ColorArgs == { <<>>, <<"BLUE">>, <<"GRAY">>, <<"PURPLE">>, <<"unknown">> }

\* `null`
NULL == 0

----------------------------------------------------------------------------
(* Pure helpers *)

\* `${x}px` for a number x given in halves (x = h / 2): Number::toString of an
\* integer or of a number with fractional part .5, followed by "px".
Px(h) ==
    LET a == IF h < 0 THEN -h ELSE h
    IN  (IF h < 0 THEN "-" ELSE "")
          \o ToString(a \div 2)
          \o (IF a % 2 = 1 THEN ".5" ELSE "")
          \o "px"

\* A default parameter value: `color: string = "BLUE"` applied to the argument.
DefaultColor(colorArg) == IF colorArg = <<>> THEN "BLUE" ELSE colorArg[1]

\* createCircleElement(color): the style of the new div.
createCircleElement(color) ==
    LET gradient ==
            IF color = "PURPLE" THEN "radial-gradient(circle, #9c27b0, #6a0080)"
            ELSE IF color = "GRAY" THEN "radial-gradient(circle, #c0c0c0, #808080)"
            ELSE "radial-gradient(circle, #5f9eff, #003f9f)"
        boxShadow ==
            IF color = "PURPLE"
            THEN "0 0 15px 5px rgba(156, 39, 176, 0.6), 0 0 30px 15px rgba(106, 0, 128, 0.3)"
            ELSE IF color = "GRAY"
            THEN "0 0 15px 5px rgba(192,192,192,0.5), 0 0 30px 15px rgba(128,128,128,0.3)"
            ELSE "0 0 15px 5px rgba(0, 63, 159, 0.5), 0 0 30px 15px rgba(0, 63, 159, 0.3)"
    IN  [ width          |-> "60px",
          height         |-> "60px",
          background     |-> gradient,
          borderRadius   |-> "50%",
          position       |-> "absolute",
          transform      |-> "translate(-50%, -50%)",
          display        |-> "flex",
          alignItems     |-> "center",
          justifyContent |-> "center",
          boxShadow      |-> boxShadow,
          animation      |-> "glow-right 2s infinite",
          pointerEvents  |-> "none",
          zIndex         |-> "9999",
          top            |-> "",
          left           |-> "",
          children       |-> <<>> ]

\* createIconElement(): the glyph div (innerHTML is the code point U+2726).
createIconElement ==
    [ innerHTML |-> "U+2726", fontSize |-> "24px", color |-> "white" ]

\* The <style> element addGlowAnimationStyles builds.
GlowStyleElement ==
    [ type      |-> "text/css",
      innerHTML |-> "\n            @keyframes glow-right {\n                0% {\n                    transform: translate(-50%, -50%) scale(0.9);\n                    opacity: 0.9;\n                }\n                50% {\n                    transform: translate(-50%, -50%) scale(1.1);\n                    opacity: 0.7;\n                }\n                100% {\n                    transform: translate(-50%, -50%) scale(0.9);\n                    opacity: 0.9;\n                }\n            }\n        " ]

\* Mutant: the re-show path knows no GRAY.
showCircleBackground_noGray(color) ==
    IF color = "PURPLE" THEN "radial-gradient(circle, #9c27b0, #6a0080)"
    ELSE "radial-gradient(circle, #5f9eff, #003f9f)"

\* The background showCircle assigns to an existing circle.
showCircleBackground(color) ==
    IF color = "PURPLE" THEN "radial-gradient(circle, #9c27b0, #6a0080)"
    ELSE IF color = "GRAY" THEN "radial-gradient(circle, #c0c0c0, #808080)"
    ELSE "radial-gradient(circle, #5f9eff, #003f9f)"

\* updateCirclePosition(targetElement), with the module variable `circle` = c
\* and the live elements els: the elements afterwards.
updateCirclePosition(c, els, rs, targetElement) ==
    IF c = NULL THEN els
    ELSE LET rect == rs[targetElement]
         IN  [els EXCEPT ![c].top  = Px(2 * rect.top + rect.height),
                         ![c].left = Px(2 * rect.left + rect.width)]

\* node.remove(): the parent's children without the node.
Remove(children, node) == SelectSeq(children, LAMBDA n : n # node)

\* The elements that stay alive: those attached or referenced by the module.
Live(els, attached, ref) ==
    [n \in {m \in DOMAIN els : m = ref \/ \E i \in 1..Len(attached) : attached[i] = m}
        |-> els[n]]

\* The identity of a newly evaluated arrow function: distinct from that of
\* every listener registered on the window.
NewClosure(ls1, ls2) ==
    LET ids == {ls1[i].id : i \in 1..Len(ls1)} \cup {ls2[i].id : i \in 1..Len(ls2)}
    IN  IF ids = {} THEN 1
        ELSE 1 + CHOOSE m \in ids : \A n \in ids : n <= m

\* window.addEventListener(type, listener) on the type's listener list.
addEventListener(ls, listener) ==
    IF \E i \in 1..Len(ls) : ls[i].id = listener.id THEN ls ELSE Append(ls, listener)

\* window.removeEventListener(type, listener): by listener identity.
removeEventListener(ls, id) == SelectSeq(ls, LAMBDA l : l.id # id)

\* The listeners a dispatch in progress has yet to call, after a call changed
\* the event's listener list from ls to ls2.  A removed listener is not
\* called.  Whether a listener added during the dispatch is called in it
\* depends on the event target: never where the list is cloned when the
\* dispatch begins (DOM), and where the list is walked in place only if a
\* listener was still to come after the one that added it: `live`.
PendingAfter(pend, ls, ls2, live) ==
    LET kept  == SelectSeq(pend, LAMBDA l : \E i \in 1..Len(ls2) : ls2[i].id = l.id)
        added == SelectSeq(ls2, LAMBDA l : ~ \E i \in 1..Len(ls) : ls[i].id = l.id)
    IN  IF live THEN kept \o added ELSE kept

----------------------------------------------------------------------------
(* The module's functions *)

addGlowAnimationStyles ==
    IF styleSheet = NULL
    THEN /\ styleSheet' = stylesCreated + 1
         /\ stylesCreated' = stylesCreated + 1
         /\ styleElements' =
                [n \in DOMAIN styleElements \cup {stylesCreated + 1} |->
                    IF n = stylesCreated + 1 THEN GlowStyleElement ELSE styleElements[n]]
         /\ head' = Append(head, stylesCreated + 1)
    ELSE UNCHANGED <<styleSheet, stylesCreated, styleElements, head>>

createGlowingMovingCircle(targetElement, color) ==
    IF circle # NULL
    THEN UNCHANGED <<prog, created, stylesCreated>>
    ELSE LET new  == created + 1
             elem == [createCircleElement(color) EXCEPT !.children = <<createIconElement>>]
             els  == [n \in DOMAIN elements \cup {new} |->
                        IF n = new THEN elem ELSE elements[n]]
             onResize == [id |-> NewClosure(resizeListeners, scrollListeners),
                          targetElement |-> targetElement]
             resize2  == addEventListener(resizeListeners, onResize)
             onScroll == [id |-> NewClosure(resize2, scrollListeners),
                          targetElement |-> targetElement]
         IN  /\ addGlowAnimationStyles
             /\ circle' = new
             /\ created' = new
             /\ elements' = updateCirclePosition(new, els, rects, targetElement)
             /\ body' = Append(body, new)
             /\ resizeListeners' = resize2
             /\ scrollListeners' = addEventListener(scrollListeners, onScroll)

\* Mutant: re-showing forgets to make the circle visible.
showCircle_staysHidden(targetElement, colorArg) ==
    LET color == DefaultColor(colorArg)
    IN  /\ thrown' = "none"
        /\ IF circle = NULL
           THEN createGlowingMovingCircle(targetElement, color)
           ELSE /\ elements' =
                       updateCirclePosition(circle,
                           [elements EXCEPT ![circle].background = showCircleBackground(color)],
                           rects, targetElement)
                /\ UNCHANGED <<circle, styleSheet, body, head, styleElements,
                               resizeListeners, scrollListeners, created, stylesCreated>>

\* Mutant: re-showing also refreshes the glow, as creation does.
showCircle_updatesGlow(targetElement, colorArg) ==
    LET color == DefaultColor(colorArg)
    IN  /\ thrown' = "none"
        /\ IF circle = NULL
           THEN createGlowingMovingCircle(targetElement, color)
           ELSE /\ elements' =
                       updateCirclePosition(circle,
                           [elements EXCEPT ![circle].display = "flex",
                                            ![circle].background = showCircleBackground(color),
                                            ![circle].boxShadow =
                                                createCircleElement(color).boxShadow],
                           rects, targetElement)
                /\ UNCHANGED <<circle, styleSheet, body, head, styleElements,
                               resizeListeners, scrollListeners, created, stylesCreated>>

showCircle(targetElement, colorArg) ==
    LET color == DefaultColor(colorArg)
    IN  /\ thrown' = "none"
        /\ IF circle = NULL
           THEN createGlowingMovingCircle(targetElement, color)
           ELSE /\ elements' =
                       updateCirclePosition(circle,
                           [elements EXCEPT ![circle].display = "flex",
                                            ![circle].background = showCircleBackground(color)],
                           rects, targetElement)
                /\ UNCHANGED <<circle, styleSheet, body, head, styleElements,
                               resizeListeners, scrollListeners, created, stylesCreated>>

\* Mutant: the presence check is missing; `circle.style` on null throws.
hideCircle_unguarded ==
    /\ IF circle # NULL
       THEN elements' = [elements EXCEPT ![circle].display = "none"] /\ thrown' = "none"
       ELSE UNCHANGED elements /\ thrown' = "TypeError"
    /\ UNCHANGED <<circle, styleSheet, body, head, styleElements,
                   resizeListeners, scrollListeners, created, stylesCreated>>

hideCircle ==
    /\ IF circle # NULL
       THEN elements' = [elements EXCEPT ![circle].display = "none"]
       ELSE UNCHANGED elements
    /\ thrown' = "none"
    /\ UNCHANGED <<circle, styleSheet, body, head, styleElements,
                   resizeListeners, scrollListeners, created, stylesCreated>>

\* destroyCircle: `if (circle) { circle.remove(); circle = null; }`
destroyCircleElement ==
    IF circle # NULL
    THEN /\ body' = Remove(body, circle)
         /\ circle' = NULL
         /\ elements' = Live(elements, Remove(body, circle), NULL)
    ELSE UNCHANGED <<body, circle, elements>>

\* destroyCircle: `if (styleSheet) { styleSheet.remove(); styleSheet = null; }`
destroyCircleStyle ==
    IF styleSheet # NULL
    THEN /\ head' = Remove(head, styleSheet)
         /\ styleSheet' = NULL
         /\ styleElements' = Live(styleElements, Remove(head, styleSheet), NULL)
    ELSE UNCHANGED <<head, styleSheet, styleElements>>

\* destroyCircle: the two removeEventListener calls, each with a new closure.
destroyCircleListeners ==
    LET f1 == NewClosure(resizeListeners, scrollListeners)
        r2 == removeEventListener(resizeListeners, f1)
        f2 == NewClosure(r2, scrollListeners)
    IN  /\ resizeListeners' = r2
        /\ scrollListeners' = removeEventListener(scrollListeners, f2)

\* Mutant: the handle is cleared but the element is never detached.
destroyCircle_noRemove ==
    /\ circle' = NULL
    /\ UNCHANGED <<body, elements>>
    /\ destroyCircleStyle
    /\ destroyCircleListeners
    /\ thrown' = "none"
    /\ UNCHANGED <<created, stylesCreated>>

\* Mutant: the style handle is cleared but the <style> element stays in head.
destroyCircle_styleNotRemoved ==
    /\ destroyCircleElement
    /\ styleSheet' = NULL
    /\ UNCHANGED <<head, styleElements>>
    /\ destroyCircleListeners
    /\ thrown' = "none"
    /\ UNCHANGED <<created, stylesCreated>>

\* Mutant: the style declaration is kept for the next indicator.
destroyCircle_keepsStyle ==
    /\ destroyCircleElement
    /\ UNCHANGED <<head, styleSheet, styleElements>>
    /\ destroyCircleListeners
    /\ thrown' = "none"
    /\ UNCHANGED <<created, stylesCreated>>

\* Mutant: the listeners registered at creation are really detached.
destroyCircle_detaches ==
    /\ destroyCircleElement
    /\ destroyCircleStyle
    /\ resizeListeners' = <<>>
    /\ scrollListeners' = <<>>
    /\ thrown' = "none"
    /\ UNCHANGED <<created, stylesCreated>>

destroyCircle ==
    /\ destroyCircleElement
    /\ destroyCircleStyle
    /\ destroyCircleListeners
    /\ thrown' = "none"
    /\ UNCHANGED <<created, stylesCreated>>

----------------------------------------------------------------------------
(* History and the next-state relation *)

\* The target field of a call that takes no target.
NoTarget == "-"

\* No handle exists: nothing to remember about it.
\*   creator: the target of the showCircle call that created the handle
\*   shown: the target of the latest showCircle call
\*   shownMoved: that target's bounding box changed after that call
\*   visOp: the latest of show / hide called on the handle
NoHist == [creator |-> NoTarget, shown |-> NoTarget,
           shownMoved |-> FALSE, visOp |-> "-"]

\* The exported functions.
Exported == {"showCircle", "hideCircle", "destroyCircle"}

\* The record of a call or step:
\*   after: for a call of an exported function, the exported function called
\*          in the step before it, if any
\*   quiet: no exported call and no layout change fell inside the dispatch
\*          (the one in progress, or the one that has just ended)
\*   still: no layout change fell inside that dispatch
Call(op, targetElement, colorArg, quiet, still) ==
    [op |-> op, targetElement |-> targetElement, color |-> colorArg,
     after |-> IF op \in Exported /\ lastCall.op \in Exported
               THEN lastCall.op ELSE "-",
     quiet |-> quiet, still |-> still]

\* The listener list of the event being dispatched.
Dispatched(resize, scroll) == IF dispatching = "resize" THEN resize ELSE scroll

Init ==
    /\ circle = NULL
    /\ styleSheet = NULL
    /\ body = <<>>
    /\ head = <<>>
    /\ elements = <<>>
    /\ styleElements = <<>>
    /\ resizeListeners = <<>>
    /\ scrollListeners = <<>>
    /\ dispatching = "none"
    /\ pending = <<>>
    /\ rects \in [Targets -> Rects]
    /\ created = 0
    /\ stylesCreated = 0
    /\ thrown = "none"
    /\ lastCall = [op |-> "load", targetElement |-> NoTarget, color |-> <<>>,
                   after |-> "-", quiet |-> FALSE, still |-> FALSE]
    /\ hist = NoHist

\* A caller calls showCircle(targetElement) or showCircle(targetElement, color),
\* from one of its listeners when a dispatch is in progress.
CallShowCircle(targetElement, colorArg) ==
    /\ circle = NULL => created < MaxCreations
    /\ showCircle(targetElement, colorArg)
    /\ \E live \in IF dispatching # "none" /\ circle = NULL
                     THEN BOOLEAN ELSE {FALSE} :
          pending' = IF dispatching = "none" THEN pending
                     ELSE PendingAfter(pending,
                                       Dispatched(resizeListeners, scrollListeners),
                                       Dispatched(resizeListeners', scrollListeners'),
                                       live)
    /\ lastCall' = Call("showCircle", targetElement, colorArg, FALSE, lastCall.still)
    /\ hist' = IF circle = NULL
               THEN [creator |-> targetElement,
                     shown |-> targetElement, shownMoved |-> FALSE, visOp |-> "show"]
               ELSE [hist EXCEPT !.shown = targetElement, !.shownMoved = FALSE,
                                 !.visOp = "show"]
    /\ UNCHANGED <<rects, dispatching>>

\* A caller calls hideCircle().
CallHideCircle ==
    /\ hideCircle
    /\ lastCall' = Call("hideCircle", NoTarget, <<>>, FALSE, lastCall.still)
    /\ hist' = IF circle # NULL THEN [hist EXCEPT !.visOp = "hide"] ELSE hist
    /\ UNCHANGED <<rects, dispatching, pending>>

\* A caller calls destroyCircle().
CallDestroyCircle ==
    /\ destroyCircle
    /\ pending' = IF dispatching = "none" THEN pending
                  ELSE PendingAfter(pending,
                                    Dispatched(resizeListeners, scrollListeners),
                                    Dispatched(resizeListeners', scrollListeners'),
                                    FALSE)
    /\ lastCall' = Call("destroyCircle", NoTarget, <<>>, FALSE, lastCall.still)
    /\ hist' = NoHist
    /\ UNCHANGED <<rects, dispatching>>

\* The window is resized or scrolled: the dispatch of the event begins, with
\* the listeners registered now to be called.
BeginDispatch(type) ==
    /\ dispatching = "none"
    /\ dispatching' = type
    /\ pending' = IF type = "resize" THEN resizeListeners ELSE scrollListeners
    /\ lastCall' = Call("dispatch", NoTarget, <<>>, TRUE, TRUE)
    /\ UNCHANGED <<prog, rects, created, stylesCreated, thrown, hist>>

\* The dispatch calls the next listener of this module:
\* () => updateCirclePosition(targetElement).
RunListener ==
    /\ dispatching # "none"
    /\ pending # <<>>
    /\ elements' = updateCirclePosition(circle, elements, rects,
                                        Head(pending).targetElement)
    /\ pending' = Tail(pending)
    /\ lastCall' = Call("listener", Head(pending).targetElement, <<>>,
                        lastCall.quiet, lastCall.still)
    /\ UNCHANGED <<circle, styleSheet, body, head, styleElements,
                   resizeListeners, scrollListeners, dispatching, rects,
                   created, stylesCreated, thrown, hist>>

\* Every listener has been called: the event is fully dispatched.
EndDispatch ==
    /\ dispatching # "none"
    /\ pending = <<>>
    /\ dispatching' = "none"
    /\ lastCall' = Call(dispatching, NoTarget, <<>>, lastCall.quiet, lastCall.still)
    /\ UNCHANGED <<prog, pending, rects, created, stylesCreated, thrown, hist>>

\* The page lays a target out anew: its bounding box changes.
Layout(targetElement, rect) ==
    /\ rect # rects[targetElement]
    /\ rects' = [rects EXCEPT ![targetElement] = rect]
    /\ lastCall' = Call("layout", targetElement, <<>>, FALSE, FALSE)
    /\ hist' = IF targetElement = hist.shown
               THEN [hist EXCEPT !.shownMoved = TRUE] ELSE hist
    /\ UNCHANGED <<prog, inflight, created, stylesCreated, thrown>>

\* The shape of the state.
TypeOK ==
    /\ circle \in 0..created
    /\ styleSheet \in 0..stylesCreated
    /\ body \in Seq(1..created)
    /\ head \in Seq(1..stylesCreated)
    /\ DOMAIN elements \subseteq 1..created
    /\ DOMAIN styleElements \subseteq 1..stylesCreated
    /\ \A i \in 1..Len(resizeListeners) : resizeListeners[i].targetElement \in Targets
    /\ \A i \in 1..Len(scrollListeners) : scrollListeners[i].targetElement \in Targets
    /\ dispatching \in {"none", "resize", "scroll"}
    /\ \A i \in 1..Len(pending) : pending[i].targetElement \in Targets
    /\ dispatching = "none" => pending = <<>>
    /\ rects \in [Targets -> Rects]
    /\ created \in 0..MaxCreations
    /\ stylesCreated \in 0..MaxCreations
    /\ thrown \in {"none", "TypeError"}
    /\ lastCall.color \in ColorArgs
    /\ hist.creator \in Targets \cup {NoTarget}

Next ==
    \/ \E t \in Targets, a \in ColorArgs : CallShowCircle(t, a)
    \/ CallHideCircle
    \/ CallDestroyCircle
    \/ \E type \in {"resize", "scroll"} : BeginDispatch(type)
    \/ RunListener
    \/ EndDispatch
    \/ \E t \in Targets, r \in Rects : Layout(t, r)

Spec == Init /\ [][Next]_vars

----------------------------------------------------------------------------
(* What the properties below compare the code's results with *)

\* The fixed colour table of the specification, by colour argument.
TableGradient(colorArg) ==
    CASE colorArg = <<"PURPLE">> -> "radial-gradient(circle, #9c27b0, #6a0080)"
      [] colorArg = <<"GRAY">>   -> "radial-gradient(circle, #c0c0c0, #808080)"
      [] OTHER                   -> "radial-gradient(circle, #5f9eff, #003f9f)"

TableGlow(colorArg) ==
    CASE colorArg = <<"PURPLE">> ->
            "0 0 15px 5px rgba(156, 39, 176, 0.6), 0 0 30px 15px rgba(106, 0, 128, 0.3)"
      [] colorArg = <<"GRAY">>   ->
            "0 0 15px 5px rgba(192,192,192,0.5), 0 0 30px 15px rgba(128,128,128,0.3)"
      [] OTHER                   ->
            "0 0 15px 5px rgba(0, 63, 159, 0.5), 0 0 30px 15px rgba(0, 63, 159, 0.3)"

\* The indicator's top/left are the centre of the target's current bounding box.
CentredOn(targetElement) ==
    /\ elements[circle].top  = Px(2 * rects[targetElement].top + rects[targetElement].height)
    /\ elements[circle].left = Px(2 * rects[targetElement].left + rects[targetElement].width)

\* The two targets' centres differ.
CentresDiffer ==
    \E t, u \in Targets :
        2 * rects[t].top + rects[t].height # 2 * rects[u].top + rects[u].height

Events == {"resize", "scroll"}

\* An element's properties other than display, background, top and left.
Rest(e) == [e EXCEPT !.display = "", !.background = "", !.top = "", !.left = ""]

----------------------------------------------------------------------------
(* C1 *)

\* C1: at most one indicator element is attached to the document in every
\* reachable state, and after a call of showCircle (in particular a second
\* one in succession) exactly one is attached.
C1_AtMostOneIndicator ==
    /\ Len(body) <= 1
    /\ lastCall.op = "showCircle" => Len(body) = 1

\* showCircle called twice in succession, after an earlier indicator was destroyed.
C1_Witness ==
    /\ lastCall.op = "showCircle"
    /\ lastCall.after = "showCircle"
    /\ created = 2
    /\ body = <<circle>>

----------------------------------------------------------------------------
(* C2 *)

\* C2: immediately after destroyCircle() no indicator element and no style
\* declaration is attached and both module handles are absent; a showCircle
\* that follows creates a new indicator element and a new style element,
\* exactly one of each attached.
C2_FullTeardown ==
    /\ [](lastCall.op = "destroyCircle" =>
            /\ circle = NULL
            /\ styleSheet = NULL
            /\ body = <<>>
            /\ head = <<>>)
    /\ [][(lastCall.op = "destroyCircle" /\ lastCall'.op = "showCircle") =>
            /\ circle' # NULL
            /\ circle' \notin 1..created
            /\ styleSheet' # NULL
            /\ styleSheet' \notin 1..stylesCreated
            /\ body' = <<circle'>>
            /\ head' = <<styleSheet'>>
            /\ circle' \in DOMAIN elements'
            /\ styleSheet' \in DOMAIN styleElements']_vars

\* showCircle right after a destroyCircle that tore an indicator down.
C2_Witness ==
    /\ lastCall.op = "showCircle"
    /\ lastCall.after = "destroyCircle"
    /\ created >= 2
    /\ body = <<circle>>
    /\ head = <<styleSheet>>

----------------------------------------------------------------------------
(* C3 *)

\* C3: whenever a handle exists its element is attached, and it is visible
\* (display flex) exactly when the last of show/hide called since its creation
\* was show, hidden (display none) otherwise; showCircle and hideCircle on an
\* existing handle keep the same element and attach no second one.
C3_VisibilityToggling ==
    /\ [](circle # NULL =>
            /\ body = <<circle>>
            /\ hist.visOp \in {"show", "hide"}
            /\ elements[circle].display =
                 (IF hist.visOp = "show" THEN "flex" ELSE "none"))
    /\ [][(circle # NULL /\ lastCall'.op \in {"showCircle", "hideCircle"}) =>
            /\ circle' = circle
            /\ body' = body]_vars

\* show, hide, show: the element created first is visible again.
C3_Witness ==
    /\ lastCall.op = "showCircle"
    /\ lastCall.after = "hideCircle"
    /\ circle = 1
    /\ created = 1
    /\ body = <<1>>
    /\ elements[circle].display = "flex"

----------------------------------------------------------------------------
(* C4 *)

\* C4: after any call showCircle(t) the indicator's top/left are the centre of
\* t's current bounding box; and when t's bounds change afterwards and a
\* resize or scroll event is dispatched, they are the centre of t's new bounds.
C4_PositionFollowsShownTarget ==
    /\ lastCall.op = "showCircle" => CentredOn(lastCall.targetElement)
    /\ (lastCall.op \in Events /\ lastCall.quiet /\ circle # NULL
            /\ hist.shownMoved) =>
            CentredOn(hist.shown)

----------------------------------------------------------------------------
(* C5 *)

\* C5: showCircle(t, c) on an existing handle leaves the glow (box-shadow) at
\* the value set at creation and changes only background, display and position:
\* the glow is set from the creating call's colour, no step changes it while
\* the handle stays, and a re-show sets the background to that of c.
C5_ReshowKeepsGlow ==
    [][/\ (circle = NULL /\ lastCall'.op = "showCircle") =>
            elements'[circle'].boxShadow = TableGlow(lastCall'.color)
       /\ (circle # NULL /\ circle' = circle) =>
            elements'[circle].boxShadow = elements[circle].boxShadow
       /\ (circle # NULL /\ lastCall'.op = "showCircle") =>
            /\ circle' = circle
            /\ Rest(elements'[circle]) = Rest(elements[circle])
            /\ elements'[circle].background = TableGradient(lastCall'.color)]_vars

\* show(t, "GRAY") created the handle, show(t, "PURPLE") re-showed it.
C5_Witness ==
    /\ lastCall.op = "showCircle"
    /\ lastCall.color = <<"PURPLE">>
    /\ lastCall.after = "showCircle"
    /\ circle # NULL
    /\ elements[circle].background = TableGradient(<<"PURPLE">>)
    /\ elements[circle].boxShadow = TableGlow(<<"GRAY">>)

----------------------------------------------------------------------------
(* C6 *)

\* C6: immediately after showCircle(t, c), creating or re-showing, the
\* background is the gradient the table assigns to c, with an omitted or
\* unrecognised c giving the BLUE gradient.
C6_GradientOfColor ==
    lastCall.op = "showCircle" =>
        /\ circle # NULL
        /\ elements[circle].background = TableGradient(lastCall.color)

\* An unrecognised colour re-shows a handle created PURPLE: BLUE gradient.
C6_Witness ==
    /\ lastCall.op = "showCircle"
    /\ lastCall.color = <<"unknown">>
    /\ circle # NULL
    /\ elements[circle].boxShadow = TableGlow(<<"PURPLE">>)
    /\ elements[circle].background = TableGradient(<<"BLUE">>)
    /\ TableGradient(<<>>) = TableGradient(<<"BLUE">>)

----------------------------------------------------------------------------
(* C7 *)

\* C7: with no indicator handle, hideCircle() and destroyCircle() raise no
\* error and change nothing: handle, style registration, document and
\* listeners stay as they are.
C7_NoHandleNoOp ==
    [][(circle = NULL /\ lastCall'.op \in {"hideCircle", "destroyCircle"}) =>
            /\ thrown' = "none"
            /\ UNCHANGED <<prog, inflight, created, stylesCreated, rects>>]_vars

\* hideCircle was called with no handle while stale listeners are registered.
C7_Witness ==
    /\ lastCall.op = "hideCircle"
    /\ lastCall.after = "destroyCircle"
    /\ circle = NULL
    /\ Len(resizeListeners) = 2
    /\ Len(scrollListeners) = 2

----------------------------------------------------------------------------
(* C8 *)

\* C8: the number of registered resize listeners, and of scroll listeners,
\* equals the number of indicator creations so far and never decreases:
\* destroyCircle detaches none.
C8_ListenersNeverDetached ==
    /\ [](Len(resizeListeners) = created /\ Len(scrollListeners) = created)
    /\ [][/\ Len(resizeListeners') >= Len(resizeListeners)
          /\ Len(scrollListeners') >= Len(scrollListeners)]_vars

\* Two create-then-destroy cycles have left two listeners of each kind.
C8_Witness ==
    /\ lastCall.op = "destroyCircle"
    /\ circle = NULL
    /\ created = 2
    /\ Len(resizeListeners) = 2
    /\ Len(scrollListeners) = 2

----------------------------------------------------------------------------
(* C9 *)

\* C9: the style declaration is registered if and only if an indicator handle
\* exists, and at most one style declaration is attached.
C9_StyleIffHandle ==
    /\ (styleSheet # NULL) <=> (circle # NULL)
    /\ Len(head) <= 1
    /\ styleSheet # NULL => head = <<styleSheet>>

\* A second indicator, with the style registered anew.
C9_Witness ==
    /\ circle # NULL
    /\ styleSheet = 2
    /\ head = <<2>>
    /\ stylesCreated = 2

----------------------------------------------------------------------------
(* C10 *)

\* C10: stale listeners left by destroyed indicators are harmless to the final
\* position: once a resize or scroll event has been fully dispatched, the
\* indicator (if a handle exists) is centred on the target of the showCircle
\* call that created the current handle.  Stated for the dispatches the
\* statement is least demanding on: every showCircle on the current handle
\* named the creating target, and no bounding box changed during the dispatch.
C10_StaleListenersHarmless ==
    (/\ lastCall.op \in Events
     /\ lastCall.still
     /\ circle # NULL
     /\ hist.shown = hist.creator) => CentredOn(hist.creator)

====
